---- MODULE Spec2Model ----
(***************************************************************************)
(* State-machine model of vmware_perf_counters.py: one run of main(),      *)
(* from the raw-endpoint Login in enable_guest to the end of the run.      *)
(* The vCenter server, the prompts and the plotting library are the        *)
(* environment: their answers are drawn from small sets.                   *)
(*                                                                         *)
(* Python values: None is the empty tuple and a present value x is <<x>>;  *)
(* a str is the tuple of its characters wherever the code looks inside it  *)
(* (counter names, the filter text) and a TLA+ string otherwise.           *)
(***************************************************************************)
EXTENDS Integers, Sequences, FiniteSets, TLC

\* ---------------------------------------------------------------- bounds
\* Longest list of historical intervals the server is configured with.
MaxHist == 2
\* Longest answer of QueryAvailablePerfMetric.
MaxAvail == 2
\* Longest filter text typed at the prompt.
MaxMaskLen == 2
\* Most sample timestamps, and most values of one series, in a response.
MaxSamples == 2

\* ------------------------------------------------------- program constants
RealtimeId == 20
RealtimeRetention == 3600
AggregateLevel == 4
WindowDays == 365
ReadyScale == 10

None == << >>
Some(x) == << x >>

SessionCookieName == "vmware_soap_session"
CpuReady == << "c", "p", "u", ".", "r", "e", "a", "d", "y" >>
AggregateLabel == "(aggregate)"

\* ------------------------------------------------------------ environment
\* Session tokens the server hands out in the Login response's cookie.
Tokens == { "52c1" }

\* The server's counter metadata (PerfCounterInfo), as the typed API's
\* perfCounter property lists it.
PerfCounterTable ==
  << [key |-> 2, groupInfo |-> << "c", "p", "u" >>, nameInfo |-> << "r", "e", "a", "d", "y" >>,
      rollupType |-> "summation", unit |-> "ms"],
     [key |-> 143, groupInfo |-> << "n", "e", "t" >>, nameInfo |-> << "u", "s", "a", "g", "e" >>,
      rollupType |-> "average", unit |-> "KBps"],
     [key |-> 180, groupInfo |-> << "N", "f", "s" >>, nameInfo |-> << "r", "e", "a", "d" >>,
      rollupType |-> "latest", unit |-> "num"] >>

\* The full integer counter table of QueryPerfCounterInt: the typed table
\* plus a guest-level counter the typed API does not list.
PerfCounterIntTable ==
  PerfCounterTable \o
  << [key |-> 500, groupInfo |-> << "n", "e", "t" >>, nameInfo |-> << "g", "u", "e", "s", "t" >>,
      rollupType |-> "average", unit |-> "KBps"] >>

CounterKeys == { PerfCounterIntTable[i].key : i \in 1..Len(PerfCounterIntTable) }

\* Collection levels a counter can have on the server.
Levels == 1..AggregateLevel

\* Counter ids QueryAvailablePerfMetric may report: two known ones and one
\* with no metadata.
AvailIds == { 143, 180, 999 }

\* Historical intervals a server may be configured with: two of vCenter's
\* defaults, and one with the realtime sampling period, which get_intervals
\* takes from the server like any other.
IntervalPool ==
  { [samplingPeriod |-> 300, length |-> 86400, level |-> 1, name |-> "Past day"],
    [samplingPeriod |-> 1800, length |-> 604800, level |-> 1, name |-> "Past week"],
    [samplingPeriod |-> 20, length |-> 90061, level |-> 2, name |-> "Custom"] }

\* Characters the filter text is typed from.
MaskChars == { "n", "N", "e" }

\* Readings of the UTC clock, in days.
Clock == { 20398, 20399 }

ManagedTypes == { "HostSystem", "VirtualMachine", "Datastore" }

\* Instance keys of a value series: "" is the aggregate.
Instances == { "", "0" }

\* All sequences over S of length at most n.
RECURSIVE SeqsUpTo(_, _)
SeqsUpTo(S, n) ==
  IF n = 0 THEN { << >> }
  ELSE LET shorter == SeqsUpTo(S, n - 1)
       IN  shorter \cup { Append(s, x) : s \in { t \in shorter : Len(t) = n - 1 }, x \in S }

\* ------------------------------------------------------------------ state
VARIABLES
  pc,                    \* the statement the run is at; "no_data" (the return of line 188),
                         \* "returned" (the end of main) and "raised" end the run
  error,                 \* the exception that ended the run, or "none"
  serverLevels,          \* server: collection level of each counter
  cookieJar,             \* client.transport.session.cookies['vmware_soap_session']
  loginCount,            \* how often credentials were submitted
  rawCalls,              \* operations invoked on the raw (zeep) session, in order
  typedCalls,            \* operations invoked on the typed (pyVmomi) session, in order
  counters,              \* enable_guest: answer of QueryPerfCounterInt
  mappings,              \* enable_guest: the counterLevelMap submitted
  session_cookie_value,  \* main: the token enable_guest returned
  guest_metrics,         \* main: the CounterInfo list enable_guest returned
  stubCookie,            \* stub.cookie of the typed session, None before it exists
  siCreated,             \* whether vim.ServiceInstance (the typed session) was built
  disconnects,           \* how often Disconnect(si) was called
  type,                  \* main: the managed-object type picked
  mo,                    \* main: the entity picked
  historicalInterval,    \* perf_mgr.historicalInterval while get_intervals runs
  intervals,             \* what get_intervals returned, while the prompt shows it
  interval,              \* main: the interval id picked
  mask,                  \* main: the filter text, None when empty
  all_counters,          \* main
  filtered_counters,     \* main
  counter,               \* main: the counter picked
  clock,                 \* the last reading of the UTC clock
  spec,                  \* main: the QuerySpec built
  perf_data,             \* main: answer of QueryPerf
  timestamps,            \* main: the timestamp axis, None before it is extracted
  remaining,             \* the part of rec.value the plot loop has still to visit
  plotted                \* calls of ax.plot so far: what was handed to the plotting library

vars == << pc, error, serverLevels, cookieJar, loginCount, rawCalls, typedCalls,
           counters, mappings, session_cookie_value, guest_metrics, stubCookie,
           siCreated, disconnects, type, mo, historicalInterval, intervals, interval,
           mask, all_counters, filtered_counters, counter, clock, spec, perf_data,
           timestamps, remaining, plotted >>

enableVars == << counters, mappings, session_cookie_value, guest_metrics >>
sessionVars == << stubCookie, siCreated, disconnects >>
pickVars == << type, mo, historicalInterval, intervals, interval, mask >>
counterVars == << all_counters, filtered_counters, counter >>
queryVars == << clock, spec, perf_data, timestamps, remaining, plotted >>
serverVars == << serverLevels, cookieJar >>
callVars == << loginCount, rawCalls, typedCalls >>

Init ==
  /\ pc = "Login"
  /\ error = "none"
  /\ serverLevels \in [CounterKeys -> Levels]
  /\ cookieJar = None
  /\ loginCount = 0
  /\ rawCalls = << >>
  /\ typedCalls = << >>
  /\ counters = << >>
  /\ mappings = << >>
  /\ session_cookie_value = None
  /\ guest_metrics = << >>
  /\ stubCookie = None
  /\ siCreated = FALSE
  /\ disconnects = 0
  /\ type = None
  /\ mo = None
  /\ historicalInterval = << >>
  /\ intervals = << >>
  /\ interval = None
  /\ mask = None
  /\ all_counters = << >>
  /\ filtered_counters = << >>
  /\ counter = None
  /\ clock = 20398
  /\ spec = None
  /\ perf_data = << >>
  /\ timestamps = None
  /\ remaining = << >>
  /\ plotted = << >>

\* An exception nothing catches: the run ends where it is raised.
Raise(e) ==
  /\ pc' = "raised"
  /\ error' = e

\* ------------------------------------------------------------ enable_guest
\* One more submission of the credentials.
SubmitCredentials(n) == n + 1

\* service.Login(...): the credentials go to the server once. The response
\* sets the session cookie, or carries none, or is a fault zeep raises.
Login ==
  /\ pc = "Login"
  /\ loginCount' = SubmitCredentials(loginCount)
  /\ rawCalls' = Append(rawCalls, "Login")
  /\ \/ /\ \E t \in Tokens : cookieJar' = Some(t)
        /\ pc' = "RetrieveServiceContent"
        /\ UNCHANGED error
     \/ /\ cookieJar' = None
        /\ pc' = "RetrieveServiceContent"
        /\ UNCHANGED error
     \/ /\ cookieJar' = None
        /\ Raise("Fault")
  /\ UNCHANGED << serverLevels, typedCalls, enableVars, sessionVars, pickVars,
                  counterVars, queryVars >>

\* sc = service.RetrieveServiceContent(_this=si_ref); perf_mgr_ref = sc.perfManager
RetrieveServiceContent ==
  /\ pc = "RetrieveServiceContent"
  /\ rawCalls' = Append(rawCalls, "RetrieveServiceContent")
  /\ \/ pc' = "QueryPerfCounterInt" /\ UNCHANGED error
     \/ Raise("Fault")
  /\ UNCHANGED << serverVars, loginCount, typedCalls, enableVars, sessionVars,
                  pickVars, counterVars, queryVars >>

\* f'{c.groupInfo.key}.{c.nameInfo.key}'
FullName(c) == c.groupInfo \o << "." >> \o c.nameInfo

\* CounterInfo(id, name, rollup_type, label, summary); the summary is free
\* text nothing reads but the chart title and is left out.
CounterInfo(id, c) ==
  [id |-> id, name |-> FullName(c), rollup_type |-> c.rollupType, label |-> c.unit]

\* clm(counterId=c.key, aggregateLevel=4)
LevelMapping(c) == [counterId |-> c.key, aggregateLevel |-> AggregateLevel]

\* Variant of BuildMappings whose loop stops one counter short.
BuildMappings_SkipLast(cs) == [i \in 1..(Len(cs) - 1) |-> LevelMapping(cs[i])]

\* The loop of enable_guest over the counters: one mapping per counter.
BuildMappings(cs) == [i \in 1..Len(cs) |-> LevelMapping(cs[i])]

\* The same loop: one CounterInfo per counter.
BuildResult(cs) == [i \in 1..Len(cs) |-> CounterInfo(cs[i].key, cs[i])]

\* counters = service.QueryPerfCounterInt(_this=perf_mgr_ref), then the loop
\* that fills mappings and result.
QueryPerfCounterInt ==
  /\ pc = "QueryPerfCounterInt"
  /\ rawCalls' = Append(rawCalls, "QueryPerfCounterInt")
  /\ \/ /\ counters' = PerfCounterIntTable
        /\ mappings' = BuildMappings(PerfCounterIntTable)
        /\ pc' = "UpdateCounterLevelMapping"
        /\ UNCHANGED error
     \/ /\ Raise("Fault")
        /\ UNCHANGED << counters, mappings >>
  /\ UNCHANGED << serverVars, loginCount, typedCalls, session_cookie_value,
                  guest_metrics, sessionVars, pickVars, counterVars, queryVars >>

\* The server's UpdateCounterLevelMapping: every counter a mapping names gets
\* that mapping's level (a later mapping of the same counter wins), the
\* others keep theirs.
RECURSIVE ApplyLevelMap(_, _)
ApplyLevelMap(levels, ms) ==
  IF ms = << >> THEN levels
  ELSE ApplyLevelMap(
         IF Head(ms).counterId \in DOMAIN levels
           THEN [levels EXCEPT ![Head(ms).counterId] = Head(ms).aggregateLevel]
           ELSE levels,
         Tail(ms))

\* service.UpdateCounterLevelMapping(_this=perf_mgr_ref, counterLevelMap=mappings)
UpdateCounterLevelMapping ==
  /\ pc = "UpdateCounterLevelMapping"
  /\ rawCalls' = Append(rawCalls, "UpdateCounterLevelMapping")
  /\ \/ /\ serverLevels' = ApplyLevelMap(serverLevels, mappings)
        /\ pc' = "ReturnToken"
        /\ UNCHANGED error
     \/ /\ Raise("Fault")
        /\ UNCHANGED serverLevels
  /\ UNCHANGED << cookieJar, loginCount, typedCalls, enableVars, sessionVars,
                  pickVars, counterVars, queryVars >>

\* client.transport.session.cookies.get('vmware_soap_session'): the cookie's
\* value, or None when the jar holds no such cookie.
CookieGet(jar) == jar

\* session_cookie_value = ...cookies.get('vmware_soap_session')
\* return session_cookie_value, result      (and the assignment in main)
ReturnToken ==
  /\ pc = "ReturnToken"
  /\ session_cookie_value' = CookieGet(cookieJar)
  /\ guest_metrics' = BuildResult(counters)
  /\ pc' = "BuildStub"
  /\ UNCHANGED << error, serverVars, callVars, counters, mappings, sessionVars,
                  pickVars, counterVars, queryVars >>

\* --------------------------------------------------------------- main
\* f"vmware_soap_session={session_cookie_value}": the f-string prints an
\* absent token as the text None.
CookieHeader(token) ==
  [name |-> SessionCookieName, value |-> IF token = None THEN "None" ELSE token[1]]

\* Variant of BuildStub that opens the typed session with a login of its own
\* instead of the cookie.
BuildStub_Relogin ==
  /\ pc = "BuildStub"
  /\ loginCount' = SubmitCredentials(loginCount)
  /\ stubCookie' = None
  /\ siCreated' = TRUE
  /\ pc' = "PickType"
  /\ UNCHANGED << error, serverVars, rawCalls, typedCalls, enableVars, disconnects,
                  pickVars, counterVars, queryVars >>

\* stub = SmartStubAdapter(...); stub.cookie = f"..."; si = vim.ServiceInstance(...)
\* The typed session is built from the cookie alone; nothing is sent yet.
BuildStub ==
  /\ pc = "BuildStub"
  /\ stubCookie' = Some(CookieHeader(session_cookie_value))
  /\ siCreated' = TRUE
  /\ pc' = "PickType"
  /\ UNCHANGED << error, serverVars, callVars, enableVars, disconnects, pickVars,
                  counterVars, queryVars >>

\* type = questionary.select("Pick a type:", choices=[...]).ask()
PickType ==
  /\ pc = "PickType"
  /\ \E t \in ManagedTypes : type' = Some(t)
  /\ pc' = "RetrieveContent"
  /\ UNCHANGED << error, serverVars, callVars, enableVars, sessionVars, mo,
                  historicalInterval, intervals, interval, mask, counterVars, queryVars >>

\* content = si.RetrieveContent()
RetrieveContent ==
  /\ pc = "RetrieveContent"
  /\ typedCalls' = Append(typedCalls, "RetrieveContent")
  /\ \/ pc' = "PickObject" /\ UNCHANGED error
     \/ Raise("Fault")
  /\ UNCHANGED << serverVars, loginCount, rawCalls, enableVars, sessionVars, pickVars,
                  counterVars, queryVars >>

\* Inventories the container view may list for a type.
Inventories == { << >>, << "mo-1" >> }

\* mo = questionary.select("Pick an object:",
\*          choices=[... for h in get_entities(content, type)]).ask()
\* get_entities creates the view, reads it and destroys it; a select with no
\* choices raises ValueError.
PickObject ==
  /\ pc = "PickObject"
  /\ \/ /\ typedCalls' = typedCalls \o << "CreateContainerView", "view", "Destroy" >>
        /\ \E entities \in Inventories :
             IF entities = << >>
               THEN Raise("ValueError") /\ UNCHANGED mo
               ELSE /\ \E i \in DOMAIN entities : mo' = Some(entities[i])
                    /\ pc' = "GetIntervals"
                    /\ UNCHANGED error
     \/ /\ typedCalls' = Append(typedCalls, "CreateContainerView")
        /\ Raise("Fault")
        /\ UNCHANGED mo
  /\ UNCHANGED << serverVars, loginCount, rawCalls, enableVars, sessionVars, type,
                  historicalInterval, intervals, interval, mask, counterVars, queryVars >>

\* seconds_to_readable: the parts "<n>d", "<n>h", "<n>m", "<n>s" that are not
\* zero, in that order, as pairs <<n, unit>>; "0s" when all are zero.
seconds_to_readable(seconds) ==
  LET sec     == seconds % 60
      minutes == (seconds \div 60) % 60
      hours   == ((seconds \div 60) \div 60) % 24
      days    == ((seconds \div 60) \div 60) \div 24
      parts   == (IF days # 0 THEN << << days, "d" >> >> ELSE << >>)
                 \o (IF hours # 0 THEN << << hours, "h" >> >> ELSE << >>)
                 \o (IF minutes # 0 THEN << << minutes, "m" >> >> ELSE << >>)
                 \o (IF sec # 0 THEN << << sec, "s" >> >> ELSE << >>)
  IN  IF parts = << >> THEN << << 0, "s" >> >> ELSE parts

\* The entry get_intervals prepends: (20, '  ID: 20 seconds (Realtime) - Level 1, ...').
RealtimeEntry ==
  [id |-> RealtimeId, name |-> "Realtime", level |-> 1,
   retained |-> seconds_to_readable(RealtimeRetention)]

\* The entry get_intervals appends for a historical interval i.
HistoricalEntry(i) ==
  [id |-> i.samplingPeriod, name |-> i.name, level |-> i.level,
   retained |-> seconds_to_readable(i.length)]

\* Variant of get_intervals that puts the realtime entry last.
get_intervals_RealtimeLast(hist) ==
  [k \in 1..Len(hist) |-> HistoricalEntry(hist[k])] \o << RealtimeEntry >>

\* get_intervals(perf_mgr): the realtime entry, then one entry per historical
\* interval, in the server's order.
get_intervals(hist) ==
  << RealtimeEntry >> \o [k \in 1..Len(hist) |-> HistoricalEntry(hist[k])]

\* perf_mgr = content.perfManager, and get_intervals(perf_mgr) reading
\* perf_mgr.historicalInterval from the server.
GetIntervals ==
  /\ pc = "GetIntervals"
  /\ typedCalls' = Append(typedCalls, "historicalInterval")
  /\ \/ /\ \E hist \in SeqsUpTo(IntervalPool, MaxHist) :
             /\ historicalInterval' = hist
             /\ intervals' = get_intervals(hist)
        /\ pc' = "PickInterval"
        /\ UNCHANGED error
     \/ /\ Raise("Fault")
        /\ UNCHANGED << historicalInterval, intervals >>
  /\ UNCHANGED << serverVars, loginCount, rawCalls, enableVars, sessionVars, type, mo,
                  interval, mask, counterVars, queryVars >>

\* interval = questionary.select("Pick a performance interval:",
\*               choices=[Choice(title=name, value=id) for id, name in ...]).ask()
\* The list get_intervals returned is a temporary of this statement.
PickInterval ==
  /\ pc = "PickInterval"
  /\ \E k \in DOMAIN intervals : interval' = Some(intervals[k].id)
  /\ historicalInterval' = << >>
  /\ intervals' = << >>
  /\ pc' = "AskMask"
  /\ UNCHANGED << error, serverVars, callVars, enableVars, sessionVars, type, mo, mask,
                  counterVars, queryVars >>

\* mask = questionary.text("filter metrics by class ...").ask() or None
AskMask ==
  /\ pc = "AskMask"
  /\ \E text \in SeqsUpTo(MaskChars, MaxMaskLen) :
       mask' = IF text = << >> THEN None ELSE Some(text)
  /\ pc' = "GetCounters"
  /\ UNCHANGED << error, serverVars, callVars, enableVars, sessionVars, type, mo,
                  historicalInterval, intervals, interval, counterVars, queryVars >>

\* counter_info.get(id): the metadata of counter id, None when there is none.
CounterInfoGet(id) ==
  LET hits == { k \in 1..Len(PerfCounterTable) : PerfCounterTable[k].key = id }
  IN  IF hits = { } THEN None ELSE Some(PerfCounterTable[CHOOSE k \in hits : TRUE])

\* get_counters(perf_mgr, host, interval_id): one CounterInfo per available
\* metric whose counter has metadata, in the order the server lists them.
RECURSIVE get_counters(_)
get_counters(available) ==
  IF available = << >> THEN << >>
  ELSE LET c == CounterInfoGet(Head(available))
       IN  (IF c # None THEN << CounterInfo(Head(available), c[1]) >> ELSE << >>)
           \o get_counters(Tail(available))

\* all_counters = [*get_counters(perf_mgr, mo, interval), *guest_metrics]
MergeCounters(entity_counters, guest) == entity_counters \o guest

\* The call of get_counters in main, with QueryAvailablePerfMetric answered
\* by the server, and the merge with the guest metrics.
GetCounters ==
  /\ pc = "GetCounters"
  /\ typedCalls' = Append(typedCalls, "QueryAvailablePerfMetric")
  /\ \/ /\ \E available \in SeqsUpTo(AvailIds, MaxAvail) :
             all_counters' = MergeCounters(get_counters(available), guest_metrics)
        /\ pc' = "Filter"
        /\ UNCHANGED error
     \/ /\ Raise("Fault")
        /\ UNCHANGED all_counters
  /\ UNCHANGED << serverVars, loginCount, rawCalls, enableVars, sessionVars, pickVars,
                  filtered_counters, counter, queryVars >>

\* str.casefold() on one character: upper-case letters fold to lower case.
CaseFoldChar(ch) ==
  CASE ch = "N" -> "n"
    [] ch = "E" -> "e"
    [] OTHER -> ch

\* str.casefold()
casefold(str) == [k \in 1..Len(str) |-> CaseFoldChar(str[k])]

\* str.startswith(prefix), prefix a str
startswith(str, prefix) ==
  /\ Len(prefix) <= Len(str)
  /\ SubSeq(str, 1, Len(prefix)) = prefix

\* The test of the comprehension: t.name.casefold().startswith(mask). The
\* name is folded, the mask is used as typed.
MaskMatches(name, text) == startswith(casefold(name), text)

\* [t for t in all_counters if t.name.casefold().startswith(mask)], mask a str
RECURSIVE FilterCounters(_, _)
FilterCounters(cs, text) ==
  IF cs = << >> THEN << >>
  ELSE (IF MaskMatches(Head(cs).name, text) THEN << Head(cs) >> ELSE << >>)
       \o FilterCounters(Tail(cs), text)

\* filtered_counters = [t for t in all_counters if ...startswith(mask)]
\* startswith(None) raises TypeError on the first element tested.
Filter ==
  /\ pc = "Filter"
  /\ IF mask = None
       THEN IF all_counters = << >>
              THEN /\ filtered_counters' = << >>
                   /\ pc' = "SelectCounter"
                   /\ UNCHANGED error
              ELSE /\ Raise("TypeError")
                   /\ UNCHANGED filtered_counters
       ELSE /\ filtered_counters' = FilterCounters(all_counters, mask[1])
            /\ pc' = "SelectCounter"
            /\ UNCHANGED error
  /\ UNCHANGED << serverVars, callVars, enableVars, sessionVars, pickVars, all_counters,
                  counter, queryVars >>

\* counter = questionary.select("Select metric to query:", choices=[...]).ask()
\* A select with no choices raises ValueError.
SelectCounter ==
  /\ pc = "SelectCounter"
  /\ IF filtered_counters = << >>
       THEN Raise("ValueError") /\ UNCHANGED counter
       ELSE /\ \E k \in DOMAIN filtered_counters : counter' = Some(filtered_counters[k])
            /\ pc' = "BuildSpec"
            /\ UNCHANGED error
  /\ UNCHANGED << serverVars, callVars, enableVars, sessionVars, pickVars, all_counters,
                  filtered_counters, queryVars >>

\* end_time - datetime.timedelta(days=365), times in days
WindowStart(end_time) == end_time - WindowDays

\* Variant of QueryWindow that bounds the start of the window only.
QueryWindow_OpenEnd(interval_id, now) ==
  IF interval_id # RealtimeId
    THEN [start_time |-> Some(WindowStart(now)), end_time |-> None]
    ELSE [start_time |-> None, end_time |-> None]

\* The window of the query: if interval != 20, end_time is the clock's
\* reading and start_time 365 days before it; else both are None.
QueryWindow(interval_id, now) ==
  IF interval_id # RealtimeId
    THEN [start_time |-> Some(WindowStart(now)), end_time |-> Some(now)]
    ELSE [start_time |-> None, end_time |-> None]

\* vim.PerformanceManager.QuerySpec(entity=mo, metricId=[MetricId(counterId=
\* counter.id, instance="*")], startTime=..., endTime=..., intervalId=interval)
QuerySpec(entity, c, window, interval_id) ==
  [entity |-> entity,
   metricId |-> << [counterId |-> c.id, instance |-> "*"] >>,
   startTime |-> window.start_time,
   endTime |-> window.end_time,
   intervalId |-> interval_id]

\* Lines 168-182: the clock is read only on the historical branch.
BuildSpec ==
  /\ pc = "BuildSpec"
  /\ IF interval[1] # RealtimeId
       THEN \E now \in { t \in Clock : t >= clock } : clock' = now
       ELSE UNCHANGED clock
  /\ spec' = Some(QuerySpec(mo[1], counter[1], QueryWindow(interval[1], clock'), interval[1]))
  /\ pc' = "QueryPerf"
  /\ UNCHANGED << error, serverVars, callVars, enableVars, sessionVars, pickVars,
                  counterVars, perf_data, timestamps, remaining, plotted >>

\* The i-th sample of a series, and the i-th sample time, as the server
\* reports them.
SampleValue(k) == 400 * k
SampleTime(k) == k

\* A value series of n values for an instance.
Series(inst, n) == [id |-> [instance |-> inst], value |-> [k \in 1..n |-> SampleValue(k)]]

\* The value lists of a record: no series, one series, or the aggregate and
\* one instance; a series may be longer or shorter than the timestamp axis.
ValueLists ==
  { << >> }
  \cup { << Series(inst, n) >> : inst \in Instances, n \in 0..MaxSamples }
  \cup { << Series("", n), Series("0", m) >> : n \in 0..MaxSamples, m \in 0..MaxSamples }

\* What QueryPerf may answer: no record, or one record.
Responses ==
  { << >> }
  \cup { << [sampleInfo |-> [k \in 1..n |-> [timestamp |-> SampleTime(k)]], value |-> v] >> :
           n \in 0..MaxSamples, v \in ValueLists }

\* perf_data = perf_mgr.QueryPerf(querySpec=[spec])
QueryPerf ==
  /\ pc = "QueryPerf"
  /\ typedCalls' = Append(typedCalls, "QueryPerf")
  /\ \/ /\ \E response \in Responses : perf_data' = response
        /\ pc' = "CheckData"
        /\ UNCHANGED error
     \/ /\ Raise("Fault")
        /\ UNCHANGED perf_data
  /\ UNCHANGED << serverVars, loginCount, rawCalls, enableVars, sessionVars, pickVars,
                  counterVars, clock, spec, timestamps, remaining, plotted >>

\* Variant of NoData that also takes a record without value series for no data.
NoData_EmptyRecord(data) == Len(data) = 0 \/ Len(data[1].value) = 0

\* `not perf_data`: the answer holds no record.
NoData(data) == Len(data) = 0

\* Disconnect(si): logs the typed session out.
Disconnect ==
  /\ disconnects' = disconnects + 1
  /\ typedCalls' = Append(typedCalls, "Logout")

\* timestamps = [si_entry.timestamp for si_entry in rec.sampleInfo]
Timestamps(rec) == [k \in 1..Len(rec.sampleInfo) |-> rec.sampleInfo[k].timestamp]

\* Lines 185-205: with no data, print, Disconnect(si) and return; else take
\* the first record, extract the timestamps and set up the axes.
CheckData ==
  /\ pc = "CheckData"
  /\ IF NoData(perf_data)
       THEN /\ Disconnect
            /\ pc' = "no_data"
            /\ UNCHANGED << timestamps, remaining >>
       ELSE /\ timestamps' = Some(Timestamps(perf_data[1]))
            /\ remaining' = perf_data[1].value
            /\ pc' = "PlotLoop"
            /\ UNCHANGED << disconnects, typedCalls >>
  /\ UNCHANGED << error, serverVars, loginCount, rawCalls, enableVars, stubCookie,
                  siCreated, pickVars, counterVars, clock, spec, perf_data, plotted >>

\* m.id.instance or "(aggregate)"
InstanceLabel(m) == IF m.id.instance = "" THEN AggregateLabel ELSE m.id.instance

\* [x / (interval * 10) for x in values], each quotient as <<numerator, denominator>>
ReadyPercent(values, interval_id) ==
  [k \in 1..Len(values) |-> << values[k], interval_id * ReadyScale >>]

\* ax.plot(x, y, label=...): matplotlib raises ValueError when x and y differ
\* in length.
PlotAccepts(x, y) == Len(x) = Len(y)

\* One pass of `for m in rec.value`: ax1.plot(timestamps, values, ...), and
\* for cpu.ready ax2.plot(timestamps, [x / (interval * 10) ...], ...). Every
\* call is recorded as made; the one matplotlib rejects ends the run.
PlotSeries ==
  /\ pc = "PlotLoop"
  /\ remaining # << >>
  /\ LET m      == Head(remaining)
         values == m.value
         label  == InstanceLabel(m)
         first  == [axis |-> "ax1", x |-> timestamps[1], y |-> values, label |-> label]
         second == [axis |-> "ax2", x |-> timestamps[1],
                    y |-> ReadyPercent(values, interval[1]), label |-> label]
     IN  IF ~PlotAccepts(timestamps[1], values)
           THEN /\ plotted' = Append(plotted, first)
                /\ Raise("ValueError")
                /\ UNCHANGED remaining
           ELSE /\ plotted' = IF counter[1].name = CpuReady
                                THEN plotted \o << first, second >>
                                ELSE Append(plotted, first)
                /\ remaining' = Tail(remaining)
                /\ UNCHANGED << pc, error >>
  /\ UNCHANGED << serverVars, callVars, enableVars, sessionVars, pickVars, counterVars,
                  clock, spec, perf_data, timestamps >>

\* Lines 214-224 after the loop: labels, plt.show(), Disconnect(si).
ShowAndDisconnect ==
  /\ pc = "PlotLoop"
  /\ remaining = << >>
  /\ Disconnect
  /\ pc' = "returned"
  /\ UNCHANGED << error, serverVars, loginCount, rawCalls, enableVars, stubCookie,
                  siCreated, pickVars, counterVars, clock, spec, perf_data, timestamps,
                  remaining, plotted >>

Next ==
  \/ Login
  \/ RetrieveServiceContent
  \/ QueryPerfCounterInt
  \/ UpdateCounterLevelMapping
  \/ ReturnToken
  \/ BuildStub
  \/ PickType
  \/ RetrieveContent
  \/ PickObject
  \/ GetIntervals
  \/ PickInterval
  \/ AskMask
  \/ GetCounters
  \/ Filter
  \/ SelectCounter
  \/ BuildSpec
  \/ QueryPerf
  \/ CheckData
  \/ PlotSeries
  \/ ShowAndDisconnect

Spec == Init /\ [][Next]_vars

\* ------------------------------------------------------------- properties
Terminated == pc \in { "no_data", "returned", "raised" }

\* The ids of a list of CounterInfo.
Ids(cs) == { cs[k].id : k \in DOMAIN cs }

\* C1: a run in which the typed session was created never terminates without
\* Disconnect having been called on it, whether it ends normally, with no
\* data, or with an unhandled error.
C1_DisconnectOnEveryExit ==
  (Terminated /\ siCreated) => disconnects >= 1

\* C2: enable_guest never returns an absent token to its caller, and no
\* typed session is ever constructed from an absent token.
C2_NoAbsentToken ==
  /\ pc = "BuildStub" => session_cookie_value # None
  /\ siCreated => session_cookie_value # None

\* Whether a record has a value series whose length differs from the number
\* of sample timestamps.
Misaligned(rec) ==
  \E k \in DOMAIN rec.value : Len(rec.value[k].value) # Len(rec.sampleInfo)

\* C3: every series handed to the plotting library has exactly as many
\* values as there are timestamps, and a response whose first record has a
\* series of another length ends the run in an error with that series never
\* paired with the timestamp axis.
C3_AlignedSeries ==
  /\ \A k \in DOMAIN plotted : Len(plotted[k].y) = Len(plotted[k].x)
  /\ (Terminated /\ timestamps # None /\ Misaligned(perf_data[1])) => pc = "raised"

\* C4: the query specification obeys the windowing law: for an interval id
\* other than 20 both bounds are set, end_time is the reading of the clock
\* and end_time - start_time is exactly 365 days; for interval id 20 both
\* bounds are unset. Never is exactly one bound set.
C4_WindowingLaw ==
  spec # None =>
    LET q == spec[1]
    IN  /\ q.intervalId = interval[1]
        /\ IF q.intervalId # 20
             THEN /\ q.startTime # None
                  /\ q.endTime # None
                  /\ q.endTime[1] = clock
                  /\ q.endTime[1] - q.startTime[1] = 365
             ELSE /\ q.startTime = None
                  /\ q.endTime = None

C4_Witness ==
  /\ spec # None
  /\ spec[1].intervalId = 300
  /\ spec[1].endTime = Some(20399)
  /\ spec[1].startTime = Some(20034)

\* C5: the candidate set built at the call site holds no two candidates with
\* the same id, and every id of the guest-only list and of the entity-scoped
\* list is in it.
C5_MergeDedup ==
  pc = "Filter" =>
    /\ \A j, k \in DOMAIN all_counters :
         all_counters[j].id = all_counters[k].id => j = k
    /\ Ids(guest_metrics) \subseteq Ids(all_counters)

\* The candidates whose name starts with the text, both folded.
RECURSIVE CaseInsensitivePrefix(_, _)
CaseInsensitivePrefix(cs, text) ==
  IF cs = << >> THEN << >>
  ELSE (IF startswith(casefold(Head(cs).name), casefold(text)) THEN << Head(cs) >> ELSE << >>)
       \o CaseInsensitivePrefix(Tail(cs), text)

\* C6: the selectable set is exactly the candidates whose dotted name starts
\* with the filter, both compared case-insensitively; with an empty or absent
\* filter it is the whole candidate list and no error is raised.
C6_CaseInsensitiveFilter ==
  /\ pc = "SelectCounter" =>
       filtered_counters =
         IF mask = None THEN all_counters ELSE CaseInsensitivePrefix(all_counters, mask[1])
  /\ error # "TypeError"

\* The run is past the test of perf_data.
PastCheckData ==
  \/ pc \in { "no_data", "PlotLoop", "returned" }
  \/ pc = "raised" /\ timestamps # None

\* C7: when QueryPerf returns no records the run ends as the no-data outcome:
\* no exception, no timestamp extraction, nothing plotted, the typed session
\* disconnected exactly once, and nothing more happens; a response with a
\* record never ends that way.
C7_NoDataOutcome ==
  /\ (PastCheckData /\ Len(perf_data) = 0) => pc = "no_data"
  /\ pc = "no_data" =>
       /\ Len(perf_data) = 0
       /\ error = "none"
       /\ timestamps = None
       /\ plotted = << >>
       /\ disconnects = 1
       /\ typedCalls[Len(typedCalls)] = "Logout"
       /\ ~ ENABLED Next

C7_Witness ==
  /\ pc = "no_data"
  /\ siCreated
  /\ disconnects = 1
  /\ spec # None

\* How often an operation occurs in a call log.
Count(calls, op) == Cardinality({ k \in DOMAIN calls : calls[k] = op })

\* C8: credentials are submitted exactly once, by the raw-endpoint Login; the
\* typed session is created only after that login and carries nothing but
\* the extracted token as its 'vmware_soap_session' cookie; once the token is
\* handed over the raw session makes no further call, and nothing logs in
\* again.
C8_SingleLogin ==
  /\ loginCount = (IF pc = "Login" THEN 0 ELSE 1)
  /\ Count(rawCalls, "Login") = loginCount
  /\ Count(typedCalls, "Login") = 0
  /\ siCreated =>
       /\ rawCalls[1] = "Login"
       /\ stubCookie # None
       /\ stubCookie[1].name = "vmware_soap_session"
       /\ session_cookie_value = cookieJar
       /\ session_cookie_value # None => stubCookie[1].value = session_cookie_value[1]
  /\ (pc = "BuildStub" \/ siCreated) =>
       rawCalls = << "Login", "RetrieveServiceContent", "QueryPerfCounterInt",
                     "UpdateCounterLevelMapping" >>

C8_Witness ==
  /\ siCreated
  /\ loginCount = 1
  /\ session_cookie_value = Some("52c1")
  /\ Count(typedCalls, "QueryPerf") = 1

\* The statement of the interval invariant about a list of entries.
OneRealtimeFirst(entries) ==
  /\ entries[1].id = 20
  /\ Cardinality({ k \in DOMAIN entries : entries[k].id = 20 }) = 1
  /\ \A k \in DOMAIN entries : k # 1 => entries[k].id > 20

\* C9 as stated: for every list of intervals configured on the server, the
\* list get_intervals returns starts with the realtime interval, has exactly
\* one entry of period 20, and every other entry has a period above 20.
C9_OneRealtimeFirst ==
  pc = "PickInterval" => OneRealtimeFirst(intervals)

\* C9 amended: the list starts with the realtime interval (period 20) and
\* continues with the server's historical intervals, one entry each, in the
\* server's order and with the server's sampling periods; so it has exactly
\* one entry of period 20 and all others above 20 whenever every configured
\* interval has a sampling period above 20.
C9_RealtimeThenVerbatim ==
  pc = "PickInterval" =>
    /\ intervals[1].id = 20
    /\ Len(intervals) = Len(historicalInterval) + 1
    /\ \A k \in DOMAIN historicalInterval :
         intervals[k + 1].id = historicalInterval[k].samplingPeriod
    /\ (\A k \in DOMAIN historicalInterval : historicalInterval[k].samplingPeriod > 20)
         => OneRealtimeFirst(intervals)

C9_Witness ==
  /\ pc = "PickInterval"
  /\ Len(historicalInterval) = 2
  /\ historicalInterval[1].samplingPeriod = 300
  /\ historicalInterval[2].samplingPeriod = 1800
  /\ OneRealtimeFirst(intervals)

\* C10: the batch enable_guest submits holds exactly one mapping for every
\* counter of the full counter table, each forcing level 4, and whatever the
\* collection levels were before, submitting it a second time leaves the
\* server with the levels the first submission produced.
C10_EnableIdempotent ==
  [][(pc = "UpdateCounterLevelMapping" /\ pc' = "ReturnToken") =>
       /\ Len(mappings) = Len(PerfCounterIntTable)
       /\ \A k \in DOMAIN mappings :
            /\ mappings[k].counterId = PerfCounterIntTable[k].key
            /\ mappings[k].aggregateLevel = 4
       /\ serverLevels' = ApplyLevelMap(serverLevels, mappings)
       /\ ApplyLevelMap(serverLevels', mappings) = serverLevels'
       /\ \A key \in CounterKeys : serverLevels'[key] = 4]_vars

C10_Witness ==
  /\ pc = "ReturnToken"
  /\ Len(mappings) = 4
  /\ \A key \in CounterKeys : serverLevels[key] = 4

====
